---- MODULE Spec2Model ----
(***************************************************************************)
(* A model of the tag parser's FLAC metadata chain (FlacStream), of the    *)
(* MP4 tag (Mp4Tag, Mp4TagMaker) and of the pure lookup tables used by     *)
(* them.                                                                   *)
(*                                                                         *)
(* A FLAC file is a signature followed by a chain of metadata blocks; the  *)
(* model keeps each block as a record of its header (type, isLast,         *)
(* dataSize) and of what the block's sub-parser does with its body.        *)
(* Stream positions are byte offsets.                                      *)
(***************************************************************************)
EXTENDS Integers, Sequences, FiniteSets, TLC

VARIABLES
    file,             \* the media file the FlacStream was constructed for
    flacStatus,       \* "constructed", "parsed", or how internalParseHeader ended
    m_format,         \* AbstractTrack::m_format
    m_vorbisComment,  \* FlacStream::m_vorbisComment (NoComment = null pointer)
    m_paddingSize,    \* FlacStream::m_paddingSize
    m_streamOffset,   \* FlacStream::m_streamOffset
    notifications,    \* notifications added to the track
    processed,        \* indices of the blocks the parse loop has handled
    nullAccess,       \* whether the parse dereferenced a null m_vorbisComment
    output,           \* what makeHeader wrote (NoOutput before)
    m_fields,         \* the field map of the Mp4Tag, in iteration order
    maker,            \* the Mp4TagMaker prepared for the tag (NoMaker: none)
    written,          \* what Mp4TagMaker::make wrote (NotMade before)
    lastCall,         \* the last call made on the Mp4Tag, with its result
    m_version,        \* Mp4Tag::m_version
    m_size,           \* Mp4Tag::m_size
    tagNotifications, \* notifications added to the Mp4Tag
    frame,            \* the fields of an MpegAudioFrame the Xing accessors read
    frameCall,        \* the last accessor called on the frame, with its result
    aspectRatio,      \* the AspectRatio constructed last (NoAspectRatio before)
    padding           \* what makePadding wrote (NoPadding before)

flacVars == <<file, flacStatus, m_format, m_vorbisComment, m_paddingSize,
              m_streamOffset, notifications, processed, nullAccess, output>>

mp4Vars == <<m_fields, maker, written, lastCall, m_version, m_size,
             tagNotifications>>

frameVars == <<frame, frameCall>>

\* the state outside the FlacStream and the Mp4Tag
otherVars == <<frameVars, aspectRatio, padding>>

vars == <<flacVars, mp4Vars, otherVars>>

----------------------------------------------------------------------------
(* Bounds of the model *)

\* longest block chain of a file (blocks after the isLast block included)
MaxBlocks == 3
\* most fields a Vorbis comment holds after raw edits
MaxVorbisFields == 2
\* most fields an MP4 tag holds when a field is inserted through fields()
MaxMp4Fields == 2
\* most notifications an Mp4Tag holds after making is prepared or the tag
\* is made
MaxTagNotifications == 3

(* Program constants *)

\* "fLaC"
FlacSignature == 1716281667
\* size of METADATA_BLOCK_STREAMINFO (0x22)
StreamInfoSize == 34
\* size of a METADATA_BLOCK_HEADER
BlockHeaderSize == 4
NoComment == [absent |-> TRUE]
NoOutput == [written |-> FALSE]

----------------------------------------------------------------------------
(* Generic helpers *)

RECURSIVE SumSeq(_)
SumSeq(s) == IF s = <<>> THEN 0 ELSE Head(s) + SumSeq(Tail(s))

\* all sequences over S of length 1..n
SeqsUpTo(S, n) == UNION {[1..k -> S] : k \in 1..n}

----------------------------------------------------------------------------
(* TagValue and the fields of a Vorbis comment *)

EmptyValue == [type |-> "Undefined", size |-> 0]

\* TagValue::isEmpty
IsEmpty(value) == value.size = 0

\* VorbisComment::fieldId(KnownField::Cover)
VorbisCoverId == "METADATA_BLOCK_PICTURE"
VorbisTitleId == "TITLE"

\* the application name and version the library is built with
APP_NAME == "tagparser"
APP_VERSION == "5.0.0"
\* APP_NAME " v" APP_VERSION, the vendor of a comment created for a picture
AppVendor == APP_NAME \o " v" \o APP_VERSION
\* the vendor string stored in a file's VORBIS_COMMENT block
FileVendor == "reference libFLAC"

\* a VorbisComment as make_unique<VorbisComment>() leaves it
NewVorbisComment ==
    [absent |-> FALSE, vendor |-> "", fields |-> <<>>, failures |-> 0]

\* fields().insert(make_pair(id, field)): fields with equal ids keep their
\* insertion order
InsertField(comment, field) ==
    [comment EXCEPT !.fields = Append(@, field)]

\* fields().equal_range(id)
EqualRange(fields, id) == SelectSeq(fields, LAMBDA f : f.id = id)

\* FieldMapBasedTag::hasField(id): some field with this id holds a value
HasFieldId(fields, id) ==
    \E i \in 1..Len(fields) : fields[i].id = id /\ ~IsEmpty(fields[i].value)

----------------------------------------------------------------------------
(* The files: a signature and a chain of metadata blocks *)

\* what reading a block's body does: "none" for the blocks without a
\* sub-parser; a VorbisComment body parses ("ok") or raises a Failure
\* ("failure"); a Picture body holds a picture ("ok"), holds none ("empty"),
\* raises TruncatedDataException ("truncated") or another Failure ("invalid")
Blocks ==
         [type : {"StreamInfo"}, isLast : BOOLEAN, dataSize : {10, StreamInfoSize},
          outcome : {"none"}]
    \cup [type : {"Padding"}, isLast : BOOLEAN, dataSize : {8}, outcome : {"none"}]
    \cup [type : {"Application"}, isLast : BOOLEAN, dataSize : {5}, outcome : {"none"}]
    \cup [type : {"VorbisComment"}, isLast : BOOLEAN, dataSize : {12},
          outcome : {"ok", "failure"}]
    \cup [type : {"Picture"}, isLast : BOOLEAN, dataSize : {40},
          outcome : {"ok", "empty", "truncated", "invalid"}]

\* a chain is valid when one of its blocks is marked as the last one; the
\* blocks behind that one stand for the bytes of the audio frames
ValidChains ==
    {c \in SeqsUpTo(Blocks, MaxBlocks) : \E i \in 1..Len(c) : c[i].isLast}

StartOffsets == {0, 3}

Files ==
         [hasStream : {TRUE}, startOffset : StartOffsets,
          signature : {FlacSignature}, chain : ValidChains]
    \cup [hasStream : {TRUE}, startOffset : StartOffsets,
          signature : {0, 1332176723}, chain : SeqsUpTo(Blocks, 1)]
    \cup [hasStream : {FALSE}, startOffset : {0},
          signature : {FlacSignature}, chain : {<<>>}]

\* index of the first block marked as last
LastIndex(chain) ==
    CHOOSE i \in 1..Len(chain) :
        chain[i].isLast /\ \A j \in 1..(i - 1) : ~chain[j].isLast

----------------------------------------------------------------------------
(* FlacStream::internalParseHeader *)

\* fixed part of a METADATA_BLOCK_PICTURE: picture type, the lengths of MIME
\* type, description and data, width, height, depth and colour count
PictureHeaderSize == 32

Notification(type, message) == [type |-> type, message |-> message]

\* case StreamInfo: a block of at least 0x22 bytes is read, a shorter one is
\* reported and ignored
ParseStreamInfoBlock(header, st) ==
    IF header.dataSize >= StreamInfoSize
    THEN [st EXCEPT !.pos = @ + StreamInfoSize, !.streamInfo = TRUE]
    ELSE [st EXCEPT !.notes = Append(@, Notification("Critical", "StreamInfo truncated"))]

\* VorbisComment::parse(stream, maxSize, NoSignature | NoFramingByte): reads
\* the vendor and the fields; a failure leaves a notification on the comment
\* and stops reading early
VorbisCommentParse(comment, header) ==
    IF header.outcome = "ok"
    THEN [comment EXCEPT
            !.vendor = FileVendor,
            !.fields = Append(@, [id |-> VorbisTitleId,
                                  value |-> [type |-> "Text", size |-> 5],
                                  typeInfo |-> 0])]
    ELSE [comment EXCEPT !.failures = @ + 1]

\* case VorbisComment: the comment is created unless one exists; a Failure
\* of its parse is caught
ParseVorbisCommentBlock(header, st) ==
    LET comment == IF st.comment = NoComment THEN NewVorbisComment ELSE st.comment
    IN  [st EXCEPT
            !.comment = VorbisCommentParse(comment, header),
            !.pos = @ + (IF header.outcome = "ok" THEN header.dataSize ELSE 1)]

\* case Picture: m_vorbisComment->fieldId() is called before the comment is
\* known to exist; with no comment that is a call through a null pointer,
\* which crashes (ub = "crash") or goes unnoticed (ub = "continue").
\* Only TruncatedDataException is caught.
ParsePictureBlock(header, st, ub) ==
    LET null == st.comment = NoComment
        s1 == [st EXCEPT !.nullAccess = @ \/ null]
        coverField == [id |-> VorbisCoverId,
                       value |-> [type |-> "Picture",
                                  size |-> header.dataSize - PictureHeaderSize],
                       typeInfo |-> 3]
        comment == IF null
                   THEN [NewVorbisComment EXCEPT !.vendor = AppVendor]
                   ELSE st.comment
    IN  IF null /\ ub = "crash" THEN [s1 EXCEPT !.status = "crashed"]
        ELSE CASE header.outcome = "ok" ->
                    [s1 EXCEPT !.comment = InsertField(comment, coverField),
                               !.pos = @ + header.dataSize]
               [] header.outcome = "empty" ->
                    [s1 EXCEPT !.notes = Append(@, Notification("Warning", "no picture")),
                               !.pos = @ + header.dataSize]
               [] header.outcome = "truncated" ->
                    [s1 EXCEPT !.notes = Append(@, Notification("Critical", "Picture truncated")),
                               !.pos = @ + 1]
               [] OTHER ->
                    [s1 EXCEPT !.status = "Failure", !.pos = @ + 1]

\* case Padding
ParsePaddingBlock(header, st) ==
    [st EXCEPT !.padding = @ + BlockHeaderSize + header.dataSize]

\* the switch over the block type
ParseBlock(header, st, ub) ==
    CASE header.type = "StreamInfo" -> ParseStreamInfoBlock(header, st)
      [] header.type = "VorbisComment" -> ParseVorbisCommentBlock(header, st)
      [] header.type = "Picture" -> ParsePictureBlock(header, st, ub)
      [] header.type = "Padding" -> ParsePaddingBlock(header, st)
      [] OTHER -> st

\* m_istream->seekg(startOffset + header.dataSize())
SeekToNextBlock(st, startOffset, header) ==
    [st EXCEPT !.pos = startOffset + header.dataSize]

\* the loop over the metadata blocks, from block i on
RECURSIVE ParseBlocks(_, _, _, _)
ParseBlocks(chain, i, st, ub) ==
    IF i > Len(chain) THEN [st EXCEPT !.status = "Io"]
    ELSE
    LET header == chain[i]
        startOffset == st.pos + BlockHeaderSize
        read == [st EXCEPT !.pos = startOffset, !.processed = Append(@, i)]
        afterSwitch == ParseBlock(header, read, ub)
        afterSeek == SeekToNextBlock(afterSwitch, startOffset, header)
    IN  IF afterSwitch.status # "running" THEN afterSwitch
        ELSE IF header.isLast THEN afterSeek
        ELSE ParseBlocks(chain, i + 1, afterSeek, ub)

\* a parse that sets the format before it looks at the signature
InternalParseHeader_FormatFirst(f, st, ub) ==
    IF ~f.hasStream THEN [st EXCEPT !.status = "NoDataFound"]
    ELSE IF f.signature = FlacSignature
    THEN LET start == [st EXCEPT !.pos = f.startOffset + 4, !.format = "Flac"]
             done == ParseBlocks(f.chain, 1, start, ub)
         IN  IF done.status = "running"
             THEN [done EXCEPT !.status = "parsed", !.streamOffset = done.pos]
             ELSE done
    ELSE [st EXCEPT
            !.pos = f.startOffset + 4,
            !.format = "Flac",
            !.notes = Append(@, Notification("Critical", "Signature not found")),
            !.status = "InvalidData"]

\* internalParseHeader on the track state st: the status tells how it ended
InternalParseHeader(f, st, ub) ==
    IF ~f.hasStream THEN [st EXCEPT !.status = "NoDataFound"]
    ELSE IF f.signature = FlacSignature
    THEN LET start == [st EXCEPT !.pos = f.startOffset + 4, !.format = "Flac"]
             done == ParseBlocks(f.chain, 1, start, ub)
         IN  IF done.status = "running"
             THEN [done EXCEPT !.status = "parsed", !.streamOffset = done.pos]
             ELSE done
    ELSE [st EXCEPT
            !.pos = f.startOffset + 4,
            !.notes = Append(@, Notification("Critical", "Signature not found")),
            !.status = "InvalidData"]

----------------------------------------------------------------------------
(* FlacStream::makeHeader *)

\* the blocks not emitted by the copy loop
IsAdjustedType(type) == type \in {"VorbisComment", "Picture", "Padding"}

\* the loop over the original blocks 1..n: every block of another type is
\* copied as it is, header included
RECURSIVE CopyBlocks(_, _, _)
CopyBlocks(chain, i, n) ==
    IF i > n THEN <<>>
    ELSE (IF IsAdjustedType(chain[i].type) THEN <<>>
          ELSE <<[type |-> chain[i].type, isLast |-> chain[i].isLast,
                  dataSize |-> chain[i].dataSize, from |-> <<"original", i>>]>>)
         \o CopyBlocks(chain, i + 1, n)

\* bytes of one "KEY=VALUE" entry with its length
VorbisFieldSize(field) == 4 + Len(field.id) + 1 + field.value.size

\* VorbisComment::make(stream, NoSignature | NoFramingByte | NoCovers): the
\* number of bytes written; the cover fields are left out
VorbisCommentMakeSize(comment) ==
    LET kept == SelectSeq(comment.fields, LAMBDA f : f.id # VorbisCoverId)
    IN  4 + Len(comment.vendor) + 4
        + SumSeq([i \in 1..Len(kept) |-> VorbisFieldSize(kept[i])])

\* FlacMetaDataBlockPicture::requiredSize
PictureRequiredSize(value) == PictureHeaderSize + value.size

\* the VorbisComment block written at lastStartOffset: 4 bytes are left for
\* the header, the comment is made, and the header is written afterwards
\* with the size taken from the offsets; it is marked as last unless covers
\* follow
MakeCommentBlock(comment, lastStartOffset) ==
    LET afterHeader == lastStartOffset + BlockHeaderSize
        endOffset == afterHeader + VorbisCommentMakeSize(comment)
    IN  [type |-> "VorbisComment",
         isLast |-> ~HasFieldId(comment.fields, VorbisCoverId),
         dataSize |-> endOffset - lastStartOffset - 4,
         from |-> <<"comment", 0>>]

\* one Picture block per cover field, the last of them marked as last
MakePictureBlocks(comment) ==
    LET coverFields == EqualRange(comment.fields, VorbisCoverId)
    IN  [j \in 1..Len(coverFields) |->
            [type |-> "Picture",
             isLast |-> (j = Len(coverFields)),
             dataSize |-> PictureRequiredSize(coverFields[j].value),
             from |-> <<"cover", j>>]]

\* offset of block k within the output
BlockOffset(blocks, k) ==
    4 + SumSeq([j \in 1..(k - 1) |-> BlockHeaderSize + blocks[j].dataSize])

\* outputStream.tellp() behind the blocks
EndOffset(blocks) == BlockOffset(blocks, Len(blocks) + 1)

\* makeHeader for the file f and the assigned comment: the blocks written
\* after the signature and the returned offset of the last block header
MakeHeader(f, comment) ==
    LET copied == CopyBlocks(f.chain, 1, LastIndex(f.chain))
        commentBlock == MakeCommentBlock(comment, EndOffset(copied))
        made == IF comment = NoComment THEN <<>>
                ELSE <<commentBlock>>
                     \o (IF commentBlock.isLast THEN <<>>
                         ELSE MakePictureBlocks(comment))
        blocks == copied \o made
    IN  [written |-> TRUE,
         signature |-> FlacSignature,
         blocks |-> blocks,
         lastStartOffset |-> IF blocks = <<>> THEN 0
                             ELSE BlockOffset(blocks, Len(blocks))]

----------------------------------------------------------------------------
(* Mp4Tag: atom ids and the known fields *)

\* The ids of the atoms in "ilst" are FourCCs, 32-bit big-endian integers;
\* they are kept as their four bytes, most significant first, and compared
\* as the integers are.
Album == <<169, 97, 108, 98>>
Artist == <<169, 65, 82, 84>>
Comment == <<169, 99, 109, 116>>
Year == <<169, 100, 97, 121>>
Title == <<169, 110, 97, 109>>
Genre == <<169, 103, 101, 110>>
PreDefinedGenre == <<103, 110, 114, 101>>
TrackPosition == <<116, 114, 107, 110>>
DiskPosition == <<100, 105, 115, 107>>
Composer == <<169, 119, 114, 116>>
Encoder == <<169, 116, 111, 111>>
Bpm == <<116, 109, 112, 111>>
Cover == <<99, 111, 118, 114>>
Rating == <<114, 116, 110, 103>>
Grouping == <<169, 103, 114, 112>>
Description == <<100, 101, 115, 99>>
Lyrics == <<169, 108, 121, 114>>
RecordLabel == <<169, 112, 117, 98>>
Performers == <<169, 112, 114, 102>>
Lyricist == <<169, 115, 119, 114>>
Extended == <<45, 45, 45, 45>>
\* the id 0, returned for a field without an atom
NoId == <<0, 0, 0, 0>>

\* Mp4TagExtendedMeanIds::iTunes, Mp4TagExtendedNameIds::cdec
MeanITunes == "com.apple.iTunes"
NameCdec == "cdec"

\* the KnownField enumeration; "Language" and "PartNumber" stand for the
\* fields the MP4 tag has no atom for
KnownFields ==
    {"Album", "Artist", "Comment", "Year", "Title", "Genre", "TrackPosition",
     "DiskPosition", "Composer", "Encoder", "Bpm", "Cover", "Rating",
     "Grouping", "Description", "Lyrics", "RecordLabel", "Performers",
     "Lyricist", "EncoderSettings", "Language", "PartNumber", "Invalid"}

\* Mp4Tag::fieldId
fieldId(field) ==
    CASE field = "Album" -> Album
      [] field = "Artist" -> Artist
      [] field = "Comment" -> Comment
      [] field = "Year" -> Year
      [] field = "Title" -> Title
      [] field = "Genre" -> Genre
      [] field = "TrackPosition" -> TrackPosition
      [] field = "DiskPosition" -> DiskPosition
      [] field = "Composer" -> Composer
      [] field = "Encoder" -> Encoder
      [] field = "Bpm" -> Bpm
      [] field = "Cover" -> Cover
      [] field = "Rating" -> Rating
      [] field = "Grouping" -> Grouping
      [] field = "Description" -> Description
      [] field = "Lyrics" -> Lyrics
      [] field = "RecordLabel" -> RecordLabel
      [] field = "Performers" -> Performers
      [] field = "Lyricist" -> Lyricist
      [] field = "EncoderSettings" -> Extended
      [] OTHER -> NoId

\* Mp4Tag::knownField
knownField(id) ==
    CASE id = Album -> "Album"
      [] id = Artist -> "Artist"
      [] id = Comment -> "Comment"
      [] id = Year -> "Year"
      [] id = Title -> "Title"
      [] id = PreDefinedGenre \/ id = Genre -> "Genre"
      [] id = TrackPosition -> "TrackPosition"
      [] id = DiskPosition -> "DiskPosition"
      [] id = Composer -> "Composer"
      [] id = Encoder -> "Encoder"
      [] id = Bpm -> "Bpm"
      [] id = Cover -> "Cover"
      [] id = Rating -> "Rating"
      [] id = Grouping -> "Grouping"
      [] id = Description -> "Description"
      [] id = Lyrics -> "Lyrics"
      [] id = RecordLabel -> "RecordLabel"
      [] id = Performers -> "Performers"
      [] id = Lyricist -> "Lyricist"
      [] OTHER -> "Invalid"

----------------------------------------------------------------------------
(* The field map of a tag: std::multimap<id, field>, kept as the sequence   *)
(* of its fields in iteration order                                         *)

TextValue(text) == [type |-> "Text", size |-> Len(text), text |-> text]
GenreIndexValue(index) == [type |-> "StandardGenreIndex", size |-> 4, index |-> index]

\* operator < of the ids
IdLess(a, b) ==
    \E i \in 1..4 : a[i] < b[i] /\ \A j \in 1..(i - 1) : a[j] = b[j]

\* a field of an ordinary atom, and of an extended ("----") atom; a field
\* is a StatusProvider and starts without notifications
Mp4Field(id, value) ==
    [id |-> id, value |-> value, mean |-> "", name |-> "", notifications |-> <<>>]
Mp4ExtendedField(mean, name, value) ==
    [id |-> Extended, value |-> value, mean |-> mean, name |-> name,
     notifications |-> <<>>]

\* multimap::insert: behind the fields whose id is not greater
MapInsert(fs, field) ==
    LET k == Cardinality({i \in 1..Len(fs) : ~IdLess(field.id, fs[i].id)})
    IN  SubSeq(fs, 1, k) \o <<field>> \o SubSeq(fs, k + 1, Len(fs))

\* multimap::erase(id): every field with the id goes
MapErase(fs, id) == SelectSeq(fs, LAMBDA f : f.id # id)

\* multimap::count(id)
MapCount(fs, id) == Len(SelectSeq(fs, LAMBDA f : f.id = id))

\* multimap::find(id): the index of the first field with the id, 0 for end()
MapFind(fs, id) ==
    IF \E i \in 1..Len(fs) : fs[i].id = id
    THEN CHOOSE i \in 1..Len(fs) :
            fs[i].id = id /\ \A j \in 1..(i - 1) : fs[j].id # id
    ELSE 0

\* FieldMapBasedTag::value(id): the value of the first field with the id
FieldMapValue(fs, id) ==
    IF MapFind(fs, id) = 0 THEN EmptyValue ELSE fs[MapFind(fs, id)].value

\* the first field with the id stays, the further fields with the id go
KeepFirst(fs, id) ==
    LET i == MapFind(fs, id)
    IN  IF i = 0 THEN fs
        ELSE SubSeq(fs, 1, i)
             \o SelectSeq(SubSeq(fs, i + 1, Len(fs)), LAMBDA f : f.id # id)

\* "erases extras-preserving duplicates per format rules": whether the rules
\* of the format let setValue erase the further fields with the id (TRUE)
\* or keep them as duplicates (FALSE); both readings are admitted
ErasesExtras == BOOLEAN

\* FieldMapBasedTag::setValue(id, value): "replaces the first matching field
\* (or inserts one) with v", and erases the further fields with the id when
\* the format rules say so
FieldMapSetValue(fs, id, value, erasesExtras) ==
    LET i == MapFind(fs, id)
        set == IF i # 0 THEN [fs EXCEPT ![i].value = value]
               ELSE MapInsert(fs, Mp4Field(id, value))
    IN  [fields |-> IF erasesExtras THEN KeepFirst(set, id) ELSE set,
         result |-> TRUE]

\* FieldMapBasedTag::setValue(KnownField, value): false for a field the
\* format has no id for
FieldMapSetKnownValue(fs, field, value, erasesExtras) ==
    IF fieldId(field) = NoId THEN [fields |-> fs, result |-> FALSE]
    ELSE FieldMapSetValue(fs, fieldId(field), value, erasesExtras)

----------------------------------------------------------------------------
(* Mp4Tag *)

\* Mp4Tag::value(mean, name)
Mp4ValueExtended(fs, mean, name) ==
    LET range == SelectSeq(fs, LAMBDA f :
                    f.id = Extended /\ f.mean = mean /\ f.name = name)
    IN  IF range = <<>> THEN EmptyValue ELSE range[1].value

\* Mp4Tag::value(KnownField)
Mp4Value(fs, field) ==
    CASE field = "Genre" ->
            IF ~IsEmpty(FieldMapValue(fs, Genre)) THEN FieldMapValue(fs, Genre)
            ELSE FieldMapValue(fs, PreDefinedGenre)
      [] field = "EncoderSettings" -> Mp4ValueExtended(fs, MeanITunes, NameCdec)
      [] OTHER -> FieldMapValue(fs, fieldId(field))

\* a setValue that inserts a field without looking for the pair
Mp4SetValueExtended_AlwaysInserts(fs, mean, name, value) ==
    [fields |-> MapInsert(fs, Mp4ExtendedField(mean, name, value)),
     result |-> TRUE]

\* Mp4Tag::setValue(mean, name, value)
Mp4SetValueExtended(fs, mean, name, value) ==
    LET hits == {i \in 1..Len(fs) :
                    fs[i].id = Extended /\ fs[i].mean = mean /\ fs[i].name = name}
        first == CHOOSE i \in hits : \A j \in hits : i <= j
    IN  IF hits # {}
        THEN [fields |-> [fs EXCEPT ![first].value = value], result |-> TRUE]
        ELSE [fields |-> MapInsert(fs, Mp4ExtendedField(mean, name, value)),
              result |-> TRUE]

\* a setValue that leaves the other genre atom in the map
Mp4SetValue_KeepsOtherGenre(fs, field, value, erasesExtras) ==
    CASE field = "Genre" ->
            IF value.type = "StandardGenreIndex"
            THEN FieldMapSetValue(fs, PreDefinedGenre, value, erasesExtras)
            ELSE FieldMapSetValue(fs, Genre, value, erasesExtras)
      [] field = "EncoderSettings" ->
            Mp4SetValueExtended(fs, MeanITunes, NameCdec, value)
      [] OTHER -> FieldMapSetKnownValue(fs, field, value, erasesExtras)

\* Mp4Tag::setValue(KnownField, value)
Mp4SetValue(fs, field, value, erasesExtras) ==
    CASE field = "Genre" ->
            IF value.type = "StandardGenreIndex"
            THEN FieldMapSetValue(MapErase(fs, Genre), PreDefinedGenre, value,
                                  erasesExtras)
            ELSE FieldMapSetValue(MapErase(fs, PreDefinedGenre), Genre, value,
                                  erasesExtras)
      [] field = "EncoderSettings" ->
            Mp4SetValueExtended(fs, MeanITunes, NameCdec, value)
      [] OTHER -> FieldMapSetKnownValue(fs, field, value, erasesExtras)

\* Mp4Tag::hasField(KnownField)
Mp4HasField(fs, field) ==
    IF field = "Genre"
    THEN HasFieldId(fs, PreDefinedGenre) \/ HasFieldId(fs, Genre)
    ELSE HasFieldId(fs, fieldId(field))

----------------------------------------------------------------------------
(* Mp4TagMaker *)

\* size of an atom header, the initial m_ilstSize
AtomHeaderSize == 8
\* size of the hdlr atom written by make
HdlrSize == 37

NoMaker == [prepared |-> FALSE]

\* the notification Mp4TagField::prepareMaking leaves on a field without id
InvalidIdNote == Notification("Warning", "Invalid tag atom id.")
\* the notification Mp4TagMaker::make leaves on a tag without ilst
EmptyTagNote == Notification("Warning", "Tag is empty.")
NotMade == [made |-> FALSE]

\* Mp4TagField::prepareMaking and Mp4TagFieldMaker::requiredSize: the atom
\* of the field, with a mean and a name atom for an extended field, and a
\* data atom of type indicator, locale and payload; a field without an id
\* cannot be made
FieldPrepareMaking(field) ==
    [ok |-> field.id # NoId,
     field |-> IF field.id # NoId THEN field
               ELSE [field EXCEPT !.notifications = Append(@, InvalidIdNote)],
     requiredSize |->
        AtomHeaderSize
        + (IF field.mean = "" THEN 0 ELSE 12 + Len(field.mean))
        + (IF field.name = "" THEN 0 ELSE 12 + Len(field.name))
        + 16 + field.value.size]

\* the loop of the constructor over the fields i.. of the tag m_tag (its
\* fields and its notifications): a field that takes part is prepared, which
\* leaves a notification on a field that cannot be made, and the
\* notifications of the field are added to the tag whether or not it could
\* be prepared
RECURSIVE PrepareFields(_, _, _, _)
PrepareFields(m_tag, i, omitPreDefinedGenre, mk) ==
    IF i > Len(m_tag.fields) THEN [m_tag |-> m_tag, maker |-> mk]
    ELSE LET field == m_tag.fields[i]
             fm == FieldPrepareMaking(field)
             takesPart ==
                /\ ~IsEmpty(field.value)
                /\ (~omitPreDefinedGenre \/ field.id = PreDefinedGenre)
             nextMaker ==
                IF takesPart /\ fm.ok
                THEN [mk EXCEPT !.m_maker = Append(@, fm),
                                !.m_ilstSize = @ + fm.requiredSize]
                ELSE mk
             nextTag ==
                IF takesPart
                THEN [fields |-> [m_tag.fields EXCEPT ![i] = fm.field],
                      notifications |-> m_tag.notifications \o fm.field.notifications]
                ELSE m_tag
         IN  PrepareFields(nextTag, i + 1, omitPreDefinedGenre, nextMaker)

\* a constructor that counts the ilst header of a tag without fields
Mp4TagMaker_CountsEmptyIlst(m_tag) ==
    LET fs == m_tag.fields
        omit == MapCount(fs, PreDefinedGenre) > 0 /\ MapCount(fs, Genre) > 0
        r == PrepareFields(m_tag, 1, omit,
                [prepared |-> TRUE, m_metaSize |-> 8 + HdlrSize,
                 m_ilstSize |-> AtomHeaderSize, m_omitPreDefinedGenre |-> omit,
                 m_maker |-> <<>>])
    IN  [r EXCEPT !.maker.m_metaSize = @ + r.maker.m_ilstSize]

\* Mp4TagMaker::Mp4TagMaker for the tag m_tag: the maker, and the tag as
\* the constructor leaves it
Mp4TagMaker(m_tag) ==
    LET fs == m_tag.fields
        omit == MapCount(fs, PreDefinedGenre) > 0 /\ MapCount(fs, Genre) > 0
        r == PrepareFields(m_tag, 1, omit,
                [prepared |-> TRUE, m_metaSize |-> 8 + HdlrSize,
                 m_ilstSize |-> AtomHeaderSize, m_omitPreDefinedGenre |-> omit,
                 m_maker |-> <<>>])
    IN  IF r.maker.m_ilstSize # AtomHeaderSize
        THEN [r EXCEPT !.maker.m_metaSize = @ + r.maker.m_ilstSize]
        ELSE r

\* Mp4TagMaker::make: the meta header, the hdlr atom and, unless it is
\* empty, the ilst atom with the prepared fields; the result names the maker
\* that wrote it
Mp4TagMakerMake(mk) ==
    LET ilst == mk.m_ilstSize # AtomHeaderSize
        fieldBytes == SumSeq([i \in 1..Len(mk.m_maker) |-> mk.m_maker[i].requiredSize])
    IN  [made |-> TRUE,
         maker |-> mk,
         metaHeader |-> mk.m_metaSize,
         hasIlst |-> ilst,
         ilstHeader |-> IF ilst THEN mk.m_ilstSize ELSE 0,
         fields |-> IF ilst THEN [i \in 1..Len(mk.m_maker) |-> mk.m_maker[i].field]
                    ELSE <<>>,
         bytes |-> 8 + HdlrSize + (IF ilst THEN 8 + fieldBytes ELSE 0),
         warning |-> ~ilst]

----------------------------------------------------------------------------
(* Mp4Tag::parse *)

\* size of the "hdlr" atom as Mp4TagMaker::make writes it, the version and
\* flags of "meta" not counted
HdlrAtomSize == 33

\* the handler type "mdirappl" (0x6d6469726170706c) and another one
HandlerMdirAppl == "mdirappl"
HandlerOther == "mdirxxxx"

NoAtom == [kind |-> "null"]

\* "hdlr" atoms: version byte, 24 bits of flags, the predefined integer and
\* the handler type
HdlrAtoms ==
    {[kind |-> "hdlr", versionByte |-> 0, flags |-> 0, predefined |-> 0,
      handlerType |-> HandlerMdirAppl],
     [kind |-> "hdlr", versionByte |-> 10, flags |-> 1, predefined |-> 1,
      handlerType |-> HandlerOther]}

\* the child atoms of "ilst": the field Mp4TagField::reparse reads from the
\* atom, a Failure raised by child->parse(), which leaves a notification on
\* the atom, or a Failure raised by Mp4TagField::reparse, which leaves one
\* on the field
IlstChildren ==
    {[field |-> Mp4ExtendedField(MeanITunes, "LABEL", TextValue("Rock")),
      outcome |-> "ok"],
     [field |-> Mp4Field(Title, EmptyValue), outcome |-> "parseFailure"],
     [field |-> Mp4Field(Title, EmptyValue), outcome |-> "reparseFailure"]}

IlstAtoms ==
    [kind : {"ilst"},
     children : {<<>>} \cup SeqsUpTo(IlstChildren, MaxMp4Fields)]

\* a child of "meta": "hdlr", "ilst", or an atom that cannot be parsed
MetaChildren == HdlrAtoms \cup IlstAtoms \cup {[kind |-> "broken"]}

MetaKinds == {a.kind : a \in MetaChildren}

\* a "meta" atom holds at most one child of a kind, in any order
MetaAtoms ==
    [children :
        {<<>>} \cup
        {c \in SeqsUpTo(MetaChildren, Cardinality(MetaKinds)) :
            \A i, j \in 1..Len(c) : c[i].kind = c[j].kind => i = j}]

\* Mp4Atom::totalSize of an atom of the model
RECURSIVE AtomTotalSize(_)
AtomTotalSize(atom) ==
    CASE atom.kind = "hdlr" -> HdlrAtomSize
      [] atom.kind = "ilst" ->
            AtomHeaderSize
            + SumSeq([i \in 1..Len(atom.children) |->
                        FieldPrepareMaking(atom.children[i].field).requiredSize])
      [] OTHER -> AtomHeaderSize

\* metaAtom.totalSize(): header, version and flags, children
MetaTotalSize(meta) ==
    AtomHeaderSize + 4
    + SumSeq([i \in 1..Len(meta.children) |-> AtomTotalSize(meta.children[i])])

\* Mp4Atom::childById from child i on: the children are parsed one after
\* the other until one has the kind; a child that cannot be parsed raises a
\* Failure; without a match the result is null
RECURSIVE ChildById(_, _, _)
ChildById(meta, kind, i) ==
    IF i > Len(meta.children) THEN [failure |-> FALSE, atom |-> NoAtom]
    ELSE IF meta.children[i].kind = "broken" THEN [failure |-> TRUE, atom |-> NoAtom]
    ELSE IF meta.children[i].kind = kind
    THEN [failure |-> FALSE, atom |-> meta.children[i]]
    ELSE ChildById(meta, kind, i + 1)

Digits == <<"0", "1", "2", "3", "4", "5", "6", "7", "8", "9">>

\* ConversionUtilities::numberToString of a number that is not negative
RECURSIVE numberToString(_)
numberToString(n) ==
    IF n < 10 THEN Digits[n + 1]
    ELSE numberToString(n \div 10) \o Digits[(n % 10) + 1]

ChildAtomsNote ==
    Notification("Critical", "Unable to parse child atoms of meta atom (stores hdlr and ilst atoms).")

\* the branch of parse taken with subAtom pointing to "hdlr"
ParseHandlerReference(t, subAtom) ==
    LET n1 == IF subAtom.versionByte # 0
              THEN <<Notification("Warning", "Version is unknown.")>> ELSE <<>>
        n2 == IF subAtom.flags # 0
              THEN <<Notification("Warning", "Flags (hdlr atom) aren't set to 0.")>>
              ELSE <<>>
        n3 == IF subAtom.predefined # 0
              THEN <<Notification("Warning", "Predefined 32-bit integer (hdlr atom) ins't set to 0.")>>
              ELSE <<>>
        n4 == IF subAtom.handlerType # HandlerMdirAppl
              THEN <<Notification("Warning", "Handler type (value in hdlr atom) is unknown. Trying to parse meta information anyhow.")>>
              ELSE <<>>
    IN  [t EXCEPT !.notes = @ \o n1 \o n2 \o n3 \o n4,
                  !.version = numberToString(subAtom.versionByte)]

\* the notification a child atom or a field holds after a Failure
FieldNote == Notification("Critical", "field")

\* the loop of parse over the children i.. of "ilst"; tagField is declared
\* before the loop, and its notifications are wiped only once child->parse()
\* has returned, so the notifications of a field that could not be reparsed
\* stay on tagField and are added again after a child that cannot be parsed
RECURSIVE ParseIlstChildren(_, _, _, _)
ParseIlstChildren(t, tagField, children, i) ==
    IF i > Len(children) THEN t
    ELSE LET child == children[i]
             childNotes == IF child.outcome = "parseFailure" THEN <<FieldNote>>
                           ELSE <<>>
             fieldNotes ==
                CASE child.outcome = "parseFailure" -> tagField.notifications
                  [] child.outcome = "reparseFailure" -> <<FieldNote>>
                  [] OTHER -> <<>>
             inserted == IF child.outcome = "ok"
                         THEN [t EXCEPT !.fields = MapInsert(@, child.field)]
                         ELSE t
             next == [inserted EXCEPT !.notes = @ \o childNotes \o fieldNotes]
         IN  ParseIlstChildren(next, [notifications |-> fieldNotes], children, i + 1)

\* Mp4Tag::parse on the tag state t: the result of the lookup of "hdlr" is
\* not kept, so subAtom is still null when it is tested
Mp4TagParse(t, meta) ==
    LET t1 == [t EXCEPT !.size = MetaTotalSize(meta)]
        hdlr == ChildById(meta, "hdlr", 1)
        t2 == IF hdlr.failure THEN [t1 EXCEPT !.notes = Append(@, ChildAtomsNote)]
              ELSE t1
        subAtom1 == NoAtom
        t3 == IF subAtom1 # NoAtom THEN ParseHandlerReference(t2, subAtom1)
              ELSE [t2 EXCEPT !.version = ""]
        ilst == ChildById(meta, "ilst", 1)
        t4 == IF ilst.failure THEN [t3 EXCEPT !.notes = Append(@, ChildAtomsNote)]
              ELSE t3
        subAtom2 == IF ilst.failure THEN subAtom1 ELSE ilst.atom
    IN  IF subAtom2 # NoAtom
        THEN [ParseIlstChildren(t4, [notifications |-> <<>>], subAtom2.children, 1)
                EXCEPT !.result = "ok"]
        ELSE [t4 EXCEPT
                !.notes = Append(@, Notification("Warning", "No ilst atom found (stores attached meta information).")),
                !.result = "NoDataFound"]

----------------------------------------------------------------------------
(* The FlacStream as a state machine *)

\* FlacStream::FlacStream
FlacInit ==
    /\ file \in Files
    /\ flacStatus = "constructed"
    /\ m_format = "Unknown"
    /\ m_vorbisComment = NoComment
    /\ m_paddingSize = 0
    /\ m_streamOffset = 0
    /\ notifications = <<>>
    /\ processed = <<>>
    /\ nullAccess = FALSE
    /\ output = NoOutput

\* AbstractTrack::parseHeader calling internalParseHeader
ParseHeader ==
    /\ UNCHANGED <<mp4Vars, otherVars>>
    /\ flacStatus = "constructed"
    /\ \E ub \in {"crash", "continue"} :
         LET st == [status |-> "running", pos |-> 0, format |-> m_format,
                    comment |-> m_vorbisComment, padding |-> m_paddingSize,
                    streamOffset |-> m_streamOffset, notes |-> notifications,
                    processed |-> <<>>, nullAccess |-> FALSE,
                    streamInfo |-> FALSE]
             r == InternalParseHeader(file, st, ub)
         IN  /\ flacStatus' = r.status
             /\ m_format' = r.format
             /\ m_vorbisComment' = r.comment
             /\ m_paddingSize' = r.padding
             /\ m_streamOffset' = r.streamOffset
             /\ notifications' = r.notes
             /\ processed' = r.processed
             /\ nullAccess' = r.nullAccess
    /\ UNCHANGED <<file, output>>

\* a tag is edited after the header was parsed and before it is written
Editable == flacStatus = "parsed" /\ output = NoOutput

\* FlacStream::createVorbisComment
CreateVorbisComment ==
    /\ UNCHANGED <<mp4Vars, otherVars>>
    /\ Editable
    /\ m_vorbisComment' =
         IF m_vorbisComment = NoComment THEN NewVorbisComment ELSE m_vorbisComment
    /\ UNCHANGED <<file, flacStatus, m_format, m_paddingSize, m_streamOffset,
                   notifications, processed, nullAccess, output>>

\* FlacStream::removeVorbisComment
RemoveVorbisComment ==
    /\ UNCHANGED <<mp4Vars, otherVars>>
    /\ Editable
    /\ m_vorbisComment' = NoComment
    /\ UNCHANGED <<file, flacStatus, m_format, m_paddingSize, m_streamOffset,
                   notifications, processed, nullAccess, output>>

\* the values of the covers added through fields(): a picture, or no value
CoverValues == {[type |-> "Picture", size |-> 5], EmptyValue}

\* a cover added to the comment through fields()
AddCover ==
    /\ UNCHANGED <<mp4Vars, otherVars>>
    /\ Editable
    /\ m_vorbisComment # NoComment
    /\ Len(m_vorbisComment.fields) < MaxVorbisFields
    /\ \E value \in CoverValues :
         m_vorbisComment' =
             InsertField(m_vorbisComment,
                         [id |-> VorbisCoverId, value |-> value, typeInfo |-> 0])
    /\ UNCHANGED <<file, flacStatus, m_format, m_paddingSize, m_streamOffset,
                   notifications, processed, nullAccess, output>>

\* the vendors set through VorbisComment::setVendor
Vendors == {"", AppVendor}

\* VorbisComment::setVendor on the comment of the stream
SetVendor ==
    /\ UNCHANGED <<mp4Vars, otherVars>>
    /\ Editable
    /\ m_vorbisComment # NoComment
    /\ \E vendor \in Vendors :
         m_vorbisComment' = [m_vorbisComment EXCEPT !.vendor = vendor]
    /\ UNCHANGED <<file, flacStatus, m_format, m_paddingSize, m_streamOffset,
                   notifications, processed, nullAccess, output>>

\* VorbisComment::fieldId(KnownField): "" for a field the format has no id for
VorbisFieldId(field) ==
    CASE field = "Title" -> VorbisTitleId
      [] field = "Cover" -> VorbisCoverId
      [] OTHER -> ""

\* VorbisComment::setValue(KnownField, value): the first field with the id
\* of the known field takes the value, or a field is inserted; the further
\* fields with the id go when the format rules say so; false for a field
\* the format has no id for
VorbisSetValue(comment, field, value, erasesExtras) ==
    LET id == VorbisFieldId(field)
        fs == comment.fields
        i == MapFind(fs, id)
        set == IF i # 0 THEN [fs EXCEPT ![i].value = value]
               ELSE Append(fs, [id |-> id, value |-> value, typeInfo |-> 0])
    IN  IF id = "" THEN [comment |-> comment, result |-> FALSE]
        ELSE [comment |-> [comment EXCEPT !.fields =
                              IF erasesExtras THEN KeepFirst(set, id) ELSE set],
              result |-> TRUE]

\* the known fields and the values VorbisComment::setValue is called with
CommentFields == {"Title", "Cover", "Invalid"}
CommentValues == {[type |-> "Text", size |-> 11], EmptyValue}

\* VorbisComment::setValue(KnownField, value) on the comment of the stream
SetCommentValue ==
    /\ UNCHANGED <<mp4Vars, otherVars>>
    /\ Editable
    /\ m_vorbisComment # NoComment
    /\ \E field \in CommentFields, value \in CommentValues,
          erasesExtras \in ErasesExtras :
         m_vorbisComment' =
             VorbisSetValue(m_vorbisComment, field, value, erasesExtras).comment
    /\ UNCHANGED <<file, flacStatus, m_format, m_paddingSize, m_streamOffset,
                   notifications, processed, nullAccess, output>>

\* FlacStream::makeHeader, called for a parsed stream
MakeHeaderCall ==
    /\ UNCHANGED <<mp4Vars, otherVars>>
    /\ Editable
    /\ output' = MakeHeader(file, m_vorbisComment)
    /\ UNCHANGED <<file, flacStatus, m_format, m_vorbisComment, m_paddingSize,
                   m_streamOffset, notifications, processed, nullAccess>>

\* a stream whose header is parsed
FlacParseNext == ParseHeader

FlacNext ==
    \/ ParseHeader
    \/ CreateVorbisComment
    \/ RemoveVorbisComment
    \/ AddCover
    \/ SetVendor
    \/ SetCommentValue
    \/ MakeHeaderCall

----------------------------------------------------------------------------
(* The Mp4Tag as a state machine *)

NoCall == [op |-> "none"]

\* Mp4Tag::Mp4Tag: a tag without fields
Mp4Init ==
    /\ m_fields = <<>>
    /\ maker = NoMaker
    /\ written = NotMade
    /\ lastCall = NoCall
    /\ m_version = ""
    /\ m_size = 0
    /\ tagNotifications = <<>>

\* the known fields and the values setValue is called with
SetFields == {"Genre", "Title", "EncoderSettings", "Language"}
SetValues == {EmptyValue, TextValue("Jazz"), GenreIndexValue(17)}

\* the atoms and the values of the fields inserted through fields(), as
\* Mp4Tag::parse inserts one field per child atom of "ilst"
RawFields ==
    {Mp4Field(PreDefinedGenre, GenreIndexValue(17)),
     Mp4Field(Genre, TextValue("Rock")),
     Mp4Field(Title, TextValue("Rock")),
     Mp4Field(NoId, TextValue("Rock"))}

\* Mp4Tag::setValue(KnownField, value)
SetValue ==
    /\ \E field \in SetFields, value \in SetValues,
          erasesExtras \in ErasesExtras :
        LET r == Mp4SetValue(m_fields, field, value, erasesExtras)
        IN  /\ m_fields' = r.fields
            /\ lastCall' = [op |-> "setValue", field |-> field, value |-> value,
                            result |-> r.result]
    /\ maker' = NoMaker
    /\ written' = NotMade
    /\ UNCHANGED <<m_version, m_size, tagNotifications>>
    /\ UNCHANGED <<flacVars, otherVars>>

\* fields().insert(make_pair(id, field))
InsertRaw ==
    /\ Len(m_fields) < MaxMp4Fields
    /\ \E field \in RawFields :
        /\ m_fields' = MapInsert(m_fields, field)
        /\ lastCall' = [op |-> "insert", id |-> field.id, value |-> field.value]
    /\ maker' = NoMaker
    /\ written' = NotMade
    /\ UNCHANGED <<m_version, m_size, tagNotifications>>
    /\ UNCHANGED <<flacVars, otherVars>>

\* the (mean, name) pairs setValue(mean, name, value) is called with
ExtendedNames == {NameCdec, "LABEL"}

\* Mp4Tag::setValue(mean, name, value)
SetValueExtended ==
    /\ \E name \in ExtendedNames, value \in SetValues :
        LET r == Mp4SetValueExtended(m_fields, MeanITunes, name, value)
        IN  /\ m_fields' = r.fields
            /\ lastCall' = [op |-> "setValueExtended", mean |-> MeanITunes,
                            name |-> name, value |-> value, result |-> r.result]
    /\ maker' = NoMaker
    /\ written' = NotMade
    /\ UNCHANGED <<m_version, m_size, tagNotifications>>
    /\ UNCHANGED <<flacVars, otherVars>>

\* Mp4Tag::parse, called for the tag of a "meta" atom right after the tag
\* was constructed
ParseTag ==
    /\ lastCall = NoCall
    /\ \E meta \in MetaAtoms :
        LET t == [fields |-> m_fields, version |-> m_version, size |-> m_size,
                  notes |-> tagNotifications, result |-> "running"]
            r == Mp4TagParse(t, meta)
        IN  /\ m_fields' = r.fields
            /\ m_version' = r.version
            /\ m_size' = r.size
            /\ tagNotifications' = r.notes
            /\ lastCall' = [op |-> "parse", hdlr |-> ChildById(meta, "hdlr", 1),
                            result |-> r.result]
    /\ maker' = NoMaker
    /\ written' = NotMade
    /\ UNCHANGED <<flacVars, otherVars>>

\* Mp4Tag::hasField and Mp4Tag::value for a known field
QueryField ==
    /\ \E field \in SetFields :
         lastCall' = [op |-> "hasField", field |-> field,
                      result |-> Mp4HasField(m_fields, field),
                      value |-> Mp4Value(m_fields, field)]
    /\ UNCHANGED <<m_fields, maker, written, m_version, m_size, tagNotifications>>
    /\ UNCHANGED <<flacVars, otherVars>>

\* Mp4Tag::fieldId followed by Mp4Tag::knownField
LookupField ==
    /\ \E field \in KnownFields :
         lastCall' = [op |-> "fieldId", field |-> field, id |-> fieldId(field),
                      back |-> knownField(fieldId(field))]
    /\ UNCHANGED <<m_fields, maker, written, m_version, m_size, tagNotifications>>
    /\ UNCHANGED <<flacVars, otherVars>>

\* Mp4Tag::prepareMaking
PrepareMaking ==
    /\ LET r == Mp4TagMaker([fields |-> m_fields, notifications |-> tagNotifications])
       IN  /\ Len(r.m_tag.notifications) <= MaxTagNotifications
           /\ maker' = r.maker
           /\ m_fields' = r.m_tag.fields
           /\ tagNotifications' = r.m_tag.notifications
    /\ lastCall' = [op |-> "prepareMaking"]
    /\ written' = NotMade
    /\ UNCHANGED <<m_version, m_size>>
    /\ UNCHANGED <<flacVars, otherVars>>

\* Mp4TagMaker::make on the maker prepared for the tag
Make ==
    /\ maker # NoMaker
    /\ LET w == Mp4TagMakerMake(maker)
       IN  /\ w.warning => Len(tagNotifications) < MaxTagNotifications
           /\ written' = w
           /\ tagNotifications' =
                 IF w.warning THEN Append(tagNotifications, EmptyTagNote)
                 ELSE tagNotifications
    /\ lastCall' = [op |-> "make"]
    /\ UNCHANGED <<m_fields, maker, m_version, m_size>>
    /\ UNCHANGED <<flacVars, otherVars>>

\* Mp4Tag::make: prepareMaking().make(stream) in one call, on a maker that
\* lives for the call only
MakeTag ==
    /\ LET r == Mp4TagMaker([fields |-> m_fields, notifications |-> tagNotifications])
           w == Mp4TagMakerMake(r.maker)
           notes == IF w.warning THEN Append(r.m_tag.notifications, EmptyTagNote)
                    ELSE r.m_tag.notifications
       IN  /\ Len(notes) <= MaxTagNotifications
           /\ written' = w
           /\ m_fields' = r.m_tag.fields
           /\ tagNotifications' = notes
    /\ lastCall' = [op |-> "makeTag"]
    /\ UNCHANGED <<maker, m_version, m_size>>
    /\ UNCHANGED <<flacVars, otherVars>>

\* a tag that is parsed, edited through setValue and queried
Mp4ParseNext ==
    \/ ParseTag
    \/ SetValue
    \/ SetValueExtended
    \/ QueryField

\* a tag that is parsed and edited through both setValue overloads
Mp4ExtendedNext ==
    \/ ParseTag
    \/ SetValue
    \/ SetValueExtended

\* a tag that is edited through setValue and fields()
Mp4EditNext ==
    \/ SetValue
    \/ InsertRaw

\* a tag that is edited through setValue and whose field ids are looked up
Mp4LookupNext ==
    \/ SetValue
    \/ LookupField

\* a tag that is edited through setValue and fields(), and made
Mp4Next ==
    \/ SetValue
    \/ InsertRaw
    \/ PrepareMaking
    \/ Make
    \/ MakeTag

----------------------------------------------------------------------------
(* MpegAudioFrame: the Xing header accessors *)

\* XingHeaderFlags
HasFramesField == 1
HasBytesField == 2
HasTocField == 4
HasQualityIndicator == 8

\* the upper 32 bits of the masks isXingHeaderAvailable tests: "Xing"
\* (0x58696e67) and "Info" (0x496e666f); the lower 32 bits of both are 0
XingId == 1483304551
InfoId == 1231971951

\* operator & of two numbers that are not negative
RECURSIVE BitAnd(_, _)
BitAnd(a, b) ==
    IF a = 0 \/ b = 0 THEN 0
    ELSE (a % 2) * (b % 2) + 2 * BitAnd(a \div 2, b \div 2)

\* the 16 combinations of the four flags
XingFlagSets == 0..15

\* values of m_xingHeader, as the upper and the lower 32 bits: nothing,
\* "Xing", "Info", an id one bit short of "Xing", and all of 31 bits set
XingHeaders ==
    [hi : {0, XingId, InfoId, XingId - 1, 2147483647}, lo : {0, 1}]

\* MpegAudioFrame::MpegAudioFrame
NewFrame == [m_xingHeader |-> [hi |-> 0, lo |-> 0], m_xingHeaderFlags |-> 0]

\* MpegAudioFrame::isXingHeaderAvailable
isXingHeaderAvailable(f) ==
    \/ BitAnd(f.m_xingHeader.hi, XingId) = XingId
    \/ BitAnd(f.m_xingHeader.hi, InfoId) = InfoId

\* MpegAudioFrame::isXingFramefieldPresent
isXingFramefieldPresent(f) ==
    IF isXingHeaderAvailable(f)
    THEN BitAnd(f.m_xingHeaderFlags, HasFramesField) = HasFramesField
    ELSE FALSE

\* MpegAudioFrame::isXingBytesfieldPresent
isXingBytesfieldPresent(f) ==
    IF isXingHeaderAvailable(f)
    THEN BitAnd(f.m_xingHeaderFlags, HasFramesField) = HasFramesField
    ELSE FALSE

\* MpegAudioFrame::isXingTocFieldPresent
isXingTocFieldPresent(f) ==
    IF isXingHeaderAvailable(f)
    THEN BitAnd(f.m_xingHeaderFlags, HasTocField) = HasTocField
    ELSE FALSE

\* MpegAudioFrame::isXingQualityIndicatorFieldPresent
isXingQualityIndicatorFieldPresent(f) ==
    IF isXingHeaderAvailable(f)
    THEN BitAnd(f.m_xingHeaderFlags, HasQualityIndicator) = HasQualityIndicator
    ELSE FALSE

NoFrameCall == [op |-> "none"]

FrameInit ==
    /\ frame = NewFrame
    /\ frameCall = NoFrameCall

\* MpegAudioFrame::parseHeader: the Xing header and its flags are taken from
\* the frame read
ParseFrameHeader ==
    /\ \E header \in XingHeaders, flags \in XingFlagSets :
         frame' = [m_xingHeader |-> header, m_xingHeaderFlags |-> flags]
    /\ frameCall' = [op |-> "parseHeader"]
    /\ UNCHANGED <<flacVars, mp4Vars, aspectRatio, padding>>

IsXingHeaderAvailableCall ==
    /\ frameCall' = [op |-> "isXingHeaderAvailable",
                     result |-> isXingHeaderAvailable(frame)]
    /\ UNCHANGED <<flacVars, mp4Vars, frame, aspectRatio, padding>>

IsXingFramefieldPresentCall ==
    /\ frameCall' = [op |-> "isXingFramefieldPresent",
                     result |-> isXingFramefieldPresent(frame)]
    /\ UNCHANGED <<flacVars, mp4Vars, frame, aspectRatio, padding>>

IsXingBytesfieldPresentCall ==
    /\ frameCall' = [op |-> "isXingBytesfieldPresent",
                     result |-> isXingBytesfieldPresent(frame)]
    /\ UNCHANGED <<flacVars, mp4Vars, frame, aspectRatio, padding>>

IsXingTocFieldPresentCall ==
    /\ frameCall' = [op |-> "isXingTocFieldPresent",
                     result |-> isXingTocFieldPresent(frame)]
    /\ UNCHANGED <<flacVars, mp4Vars, frame, aspectRatio, padding>>

IsXingQualityIndicatorFieldPresentCall ==
    /\ frameCall' = [op |-> "isXingQualityIndicatorFieldPresent",
                     result |-> isXingQualityIndicatorFieldPresent(frame)]
    /\ UNCHANGED <<flacVars, mp4Vars, frame, aspectRatio, padding>>

FrameNext ==
    \/ ParseFrameHeader
    \/ IsXingHeaderAvailableCall
    \/ IsXingFramefieldPresentCall
    \/ IsXingBytesfieldPresentCall
    \/ IsXingTocFieldPresentCall
    \/ IsXingQualityIndicatorFieldPresentCall

----------------------------------------------------------------------------
(* AspectRatio *)

\* the values of a byte
Bytes == 0..255

\* numerator and denominator of the entries of predefinedPars
predefinedPars ==
    << <<0, 0>>, <<1, 1>>, <<12, 11>>, <<10, 11>>,
       <<16, 11>>, <<40, 33>>, <<24, 11>>, <<20, 11>>,
       <<32, 11>>, <<80, 33>>, <<18, 11>>, <<15, 11>>,
       <<64, 33>>, <<160, 99>>, <<4, 3>>, <<3, 2>>,
       <<2, 1>> >>

\* sizeof(AspectRatio): a byte and two 16-bit integers, aligned to 2 bytes
AspectRatioSize == 6

\* sizeof(predefinedPars)
PredefinedParsSize == Len(predefinedPars) * AspectRatioSize

\* a 16-bit word read behind the end of predefinedPars: the memory there is
\* not part of the table, so the word is not constrained and stands for
\* every value of 0..65535
UnconstrainedWord == "any word of 0..65535"

\* what reading behind the end of predefinedPars can do: end the program
\* (a fault, or a build that checks its reads), or give unconstrained words
OutOfBoundsReads == {"crash", "read"}

NoAspectRatio == [constructed |-> FALSE]

\* AspectRatio::AspectRatio(byte aspectRatioType); ub is the outcome of a
\* read behind the end of the table
AspectRatio(aspectRatioType, ub) ==
    IF aspectRatioType < PredefinedParsSize
    THEN IF aspectRatioType < Len(predefinedPars)
         THEN [crashed |-> FALSE, indexed |-> TRUE,
               outOfBounds |-> FALSE,
               numerator |-> predefinedPars[aspectRatioType + 1][1],
               denominator |-> predefinedPars[aspectRatioType + 1][2],
               type |-> aspectRatioType]
         ELSE IF ub = "crash"
         THEN [crashed |-> TRUE, indexed |-> TRUE, outOfBounds |-> TRUE]
         ELSE [crashed |-> FALSE, indexed |-> TRUE,
               outOfBounds |-> TRUE,
               numerator |-> UnconstrainedWord,
               denominator |-> UnconstrainedWord,
               type |-> aspectRatioType]
    ELSE [crashed |-> FALSE, indexed |-> FALSE,
          outOfBounds |-> FALSE, numerator |-> 0, denominator |-> 0,
          type |-> aspectRatioType]

AspectInit == aspectRatio = NoAspectRatio

\* an AspectRatio is constructed for an AVC aspect ratio type
ConstructAspectRatio ==
    /\ \E aspectRatioType \in Bytes, ub \in OutOfBoundsReads :
         aspectRatio' = [constructed |-> TRUE,
                         aspectRatioType |-> aspectRatioType,
                         object |-> AspectRatio(aspectRatioType, ub)]
    /\ UNCHANGED <<flacVars, mp4Vars, frameVars, padding>>

AspectNext == ConstructAspectRatio

----------------------------------------------------------------------------
(* FlacStream::makePadding *)

\* largest of the small sizes makePadding is called with
MaxPaddingSize == 50

\* a uint32 is kept as its upper and its lower 16 bits
HalfModulus == 65536

UInt32(n) == [hi |-> n \div HalfModulus, lo |-> n % HalfModulus]

\* a - b modulo 2^32
UInt32Minus(a, b) ==
    LET borrow == IF a.lo < b.lo THEN 1 ELSE 0
    IN  [hi |-> (a.hi - b.hi - borrow) % HalfModulus,
         lo |-> (a.lo - b.lo) % HalfModulus]

\* the sizes: the small ones, 2^24 + 3, 2^24 + 4 and 2^32 - 1
PaddingSizes ==
    {UInt32(n) : n \in 0..MaxPaddingSize}
    \cup {[hi |-> 256, lo |-> 3], [hi |-> 256, lo |-> 4],
          [hi |-> 65535, lo |-> 65535]}

NoPadding == [written |-> FALSE]

\* FlacMetaDataBlockHeader::makeHeader: a byte with the flag and the type,
\* then the lower 24 bits of the data size, big-endian
MakeBlockHeader(header) ==
    [isLast |-> header.isLast, type |-> header.type,
     dataSize |-> [hi |-> header.dataSize.hi % 256, lo |-> header.dataSize.lo]]

\* a makePadding that takes the size for the size of the data
MakePadding_SizeIsDataSize(size, isLast) ==
    LET header == [type |-> "Padding", isLast |-> isLast, dataSize |-> size]
    IN  [header |-> header,
         headerBytes |-> MakeBlockHeader(header),
         zeroes |-> size]

\* FlacStream::makePadding: the header, then one zero per count of the loop
\* that runs until size (after size -= 4) is 0
MakePadding(size, isLast) ==
    LET size1 == UInt32Minus(size, UInt32(4))
        header == [type |-> "Padding", isLast |-> isLast, dataSize |-> size1]
    IN  [header |-> header,
         headerBytes |-> MakeBlockHeader(header),
         zeroes |-> size1]

PaddingInit == padding = NoPadding

MakePaddingCall ==
    /\ \E size \in PaddingSizes, isLast \in BOOLEAN :
         padding' = [written |-> TRUE, size |-> size, isLast |-> isLast,
                     stream |-> MakePadding(size, isLast)]
    /\ UNCHANGED <<flacVars, mp4Vars, frameVars, aspectRatio>>

PaddingNext == MakePaddingCall

----------------------------------------------------------------------------
(* The specifications *)

\* the FlacStream of one file; the Mp4Tag stays as constructed
OtherInit == FrameInit /\ AspectInit /\ PaddingInit

InitFlac == FlacInit /\ Mp4Init /\ OtherInit

SpecFlac == InitFlac /\ [][FlacNext]_vars

\* the FlacStream of one file under the parse of its header alone
SpecFlacParse == InitFlac /\ [][FlacParseNext]_vars

\* a file without a stream, for the runs of the Mp4Tag
NoFile ==
    [hasStream |-> FALSE, startOffset |-> 0, signature |-> FlacSignature,
     chain |-> <<>>]

\* the Mp4Tag; the FlacStream stays as constructed
InitMp4 == FlacInit /\ file = NoFile /\ Mp4Init /\ OtherInit

SpecMp4 == InitMp4 /\ [][Mp4Next]_vars

\* the Mp4Tag under edits and lookups of field ids
SpecMp4Lookup == InitMp4 /\ [][Mp4LookupNext]_vars

\* the Mp4Tag under edits alone
SpecMp4Edit == InitMp4 /\ [][Mp4EditNext]_vars

\* the Mp4Tag of a file: parsed, then edited and queried
SpecMp4Parse == InitMp4 /\ [][Mp4ParseNext]_vars

\* the Mp4Tag under parse and the setValue overloads
SpecMp4Extended == InitMp4 /\ [][Mp4ExtendedNext]_vars

\* an MpegAudioFrame; the other objects stay as constructed
SpecFrame == InitMp4 /\ [][FrameNext]_vars

\* the AspectRatio constructor
SpecAspect == InitMp4 /\ [][AspectNext]_vars

\* makePadding
SpecPadding == InitMp4 /\ [][PaddingNext]_vars

----------------------------------------------------------------------------
(* Properties of the FLAC metadata chain *)

\* the file holds a signature and a stream
ValidFile == file.hasStream /\ file.signature = FlacSignature

\* the blocks b1..bn of the file's chain, bn the first one marked as last
ChainIndices == 1..LastIndex(file.chain)

\* C2: the blocks makeHeader writes hold exactly one block with isLast set,
\* and it is the last block written; every earlier block has isLast cleared.
C2_ExactlyOneLastBlock ==
    (output.written /\ output.blocks # <<>>) =>
        \A k \in 1..Len(output.blocks) :
            output.blocks[k].isLast <=> (k = Len(output.blocks))

\* the case of C6: the chain holds a picture, and neither a VorbisComment
\* block nor a picture block that fails
PicturesOnly ==
    /\ ValidFile
    /\ \E i \in ChainIndices :
          file.chain[i].type = "Picture" /\ file.chain[i].outcome = "ok"
    /\ \A i \in ChainIndices :
          /\ file.chain[i].type # "VorbisComment"
          /\ file.chain[i].type = "Picture" => file.chain[i].outcome \in {"ok", "empty"}

\* C6: a Picture block met while no Vorbis comment exists makes the parse
\* create the comment with the application's vendor and insert the picture
\* as a cover; the parse neither fails nor uses a missing comment.
C6_PictureCreatesComment ==
    [][(flacStatus = "constructed" /\ PicturesOnly) =>
          /\ ~nullAccess'
          /\ flacStatus' = "parsed"
          /\ m_vorbisComment' # NoComment
          /\ m_vorbisComment'.vendor = AppVendor
          /\ Len(EqualRange(m_vorbisComment'.fields, VorbisCoverId))
                = Cardinality({i \in ChainIndices :
                                 file.chain[i].type = "Picture"
                                 /\ file.chain[i].outcome = "ok"})]_vars

\* the original blocks makeHeader has to copy, in original order
CopiedIndices ==
    {i \in ChainIndices : file.chain[i].type \notin {"VorbisComment", "Picture", "Padding"}}

\* the number of comment bytes written with the covers suppressed
CommentBytes ==
    LET fs == m_vorbisComment.fields
    IN  8 + Len(m_vorbisComment.vendor)
        + SumSeq([i \in 1..Len(fs) |->
                    IF fs[i].id = VorbisCoverId THEN 0
                    ELSE 5 + Len(fs[i].id) + fs[i].value.size])

\* C7: makeHeader writes the signature, the original blocks other than
\* VorbisComment, Picture and Padding as they are and in their order, then
\* (with a comment assigned) one VorbisComment block sized by the comment
\* bytes written, then one Picture block per cover field in field order;
\* it writes no Padding block and no original VorbisComment or Picture.
C7_OutputLayout ==
    output.written =>
        LET blocks == output.blocks
            k == Cardinality(CopiedIndices)
            covers == IF m_vorbisComment = NoComment THEN <<>>
                      ELSE EqualRange(m_vorbisComment.fields, VorbisCoverId)
        IN  /\ output.signature = FlacSignature
            /\ Len(blocks) = k + (IF m_vorbisComment = NoComment THEN 0
                                  ELSE 1 + Len(covers))
            /\ \A j \in 1..k :
                  /\ blocks[j].from[1] = "original"
                  /\ blocks[j].from[2] \in CopiedIndices
                  /\ Cardinality({i \in CopiedIndices : i < blocks[j].from[2]}) = j - 1
                  /\ blocks[j].type = file.chain[blocks[j].from[2]].type
                  /\ blocks[j].isLast = file.chain[blocks[j].from[2]].isLast
                  /\ blocks[j].dataSize = file.chain[blocks[j].from[2]].dataSize
            /\ m_vorbisComment # NoComment =>
                  /\ blocks[k + 1].type = "VorbisComment"
                  /\ blocks[k + 1].from[1] = "comment"
                  /\ blocks[k + 1].dataSize = CommentBytes
                  /\ \A j \in 1..Len(covers) :
                        /\ blocks[k + 1 + j].type = "Picture"
                        /\ blocks[k + 1 + j].from = <<"cover", j>>
                        /\ blocks[k + 1 + j].dataSize
                             = PictureHeaderSize + covers[j].value.size
            /\ \A j \in 1..Len(blocks) : blocks[j].type # "Padding"

\* C8: the parse of a stream with a valid signature handles exactly the
\* blocks b1..bn and then stops; afterwards the stream offset is the
\* position behind bn and the padding size is the sum of 4 + dataSize over
\* the Padding blocks.
C8_OffsetsAfterParse ==
    (ValidFile /\ flacStatus # "constructed") =>
        /\ flacStatus = "parsed"
        /\ processed = [i \in ChainIndices |-> i]
        /\ m_streamOffset
             = file.startOffset + 4
               + SumSeq([i \in ChainIndices |-> 4 + file.chain[i].dataSize])
        /\ m_paddingSize
             = SumSeq([i \in ChainIndices |->
                         IF file.chain[i].type = "Padding"
                         THEN 4 + file.chain[i].dataSize ELSE 0])

\* C9: no failure in a VorbisComment or Picture block and no truncated
\* StreamInfo block ends the header parse: every block up to the one marked
\* as last is handled, and a truncated StreamInfo or Picture block leaves a
\* Critical notification. (Stated for the parses in which a comment exists
\* whenever a Picture block is met.)
C9_BlockIsolation ==
    (ValidFile /\ flacStatus # "constructed" /\ ~nullAccess) =>
        /\ flacStatus = "parsed"
        /\ processed = [i \in ChainIndices |-> i]
        /\ Len(SelectSeq(notifications, LAMBDA n : n.type = "Critical"))
             = Cardinality({i \in ChainIndices :
                    \/ /\ file.chain[i].type = "StreamInfo"
                       /\ file.chain[i].dataSize < StreamInfoSize
                    \/ /\ file.chain[i].type = "Picture"
                       /\ file.chain[i].outcome = "truncated"})

\* C10: without the signature the parse leaves a Critical notification and
\* fails with InvalidData, having handled no block and changed neither
\* format, comment, padding size nor stream offset; without an input stream
\* it fails with NoDataFound.
C10_ErrorOutcomes ==
    flacStatus # "constructed" =>
        /\ ~file.hasStream => flacStatus = "NoDataFound" /\ notifications = <<>>
        /\ (file.hasStream /\ file.signature # FlacSignature) =>
              /\ flacStatus = "InvalidData"
              /\ notifications = <<Notification("Critical", "Signature not found")>>
        /\ ~ValidFile =>
              /\ processed = <<>>
              /\ m_format = "Unknown"
              /\ m_vorbisComment = NoComment
              /\ m_paddingSize = 0
              /\ m_streamOffset = 0

\* C10 witness: a parse of a file with blocks behind a wrong signature has
\* failed
C10_Witness ==
    /\ flacStatus = "InvalidData"
    /\ file.signature # FlacSignature
    /\ file.chain # <<>>

----------------------------------------------------------------------------
(* Properties of the Mp4Tag *)

\* the field map holds a "gnre" and a "(c)gen" field
BothGenres ==
    MapCount(m_fields, PreDefinedGenre) > 0 /\ MapCount(m_fields, Genre) > 0

\* the fields of the tag that hold a value and are not "gnre"
FieldsToWrite ==
    SelectSeq(m_fields, LAMBDA f : ~IsEmpty(f.value) /\ f.id # PreDefinedGenre)

\* C1: for a tag holding both "gnre" and "(c)gen", the maker prepares and
\* make writes the "(c)gen" field and every other field with a value, and
\* not the "gnre" field.
C1_GenrePolicy ==
    (written.made /\ BothGenres) =>
        /\ written.fields = FieldsToWrite
        /\ [i \in 1..Len(written.maker.m_maker) |->
                written.maker.m_maker[i].field] = FieldsToWrite

\* C3: for every known field with an atom id, knownField(fieldId(field)) is
\* the field, EncoderSettings included.
C3_FieldIdRoundTrip ==
    (lastCall.op = "fieldId" /\ lastCall.id # NoId) =>
        lastCall.back = lastCall.field

\* C4: setValue never makes a tag hold both "gnre" and "(c)gen" that did not
\* hold both before; after setValue(Genre, index) no "(c)gen" field is left,
\* after setValue(Genre, other value) no "gnre" field is left.
C4_GenreExclusive ==
    /\ [][(SetValue /\ ~BothGenres) => ~BothGenres']_vars
    /\ [](  (lastCall.op = "setValue" /\ lastCall.field = "Genre") =>
                IF lastCall.value.type = "StandardGenreIndex"
                THEN MapCount(m_fields, Genre) = 0
                ELSE MapCount(m_fields, PreDefinedGenre) = 0)

\* C4 witness: setValue(Genre, text) was called on a tag that holds a title,
\* and the tag holds the text as "(c)gen" and no "gnre"
C4_Witness ==
    /\ lastCall.op = "setValue"
    /\ lastCall.field = "Genre"
    /\ lastCall.value = TextValue("Jazz")
    /\ MapCount(m_fields, Title) > 0
    /\ FieldMapValue(m_fields, Genre) = TextValue("Jazz")
    /\ MapCount(m_fields, PreDefinedGenre) = 0

----------------------------------------------------------------------------
(* Properties of the Mp4TagMaker sizes *)

\* the sizes required by the field makers the constructor has prepared
PreparedSizes ==
    [i \in 1..Len(maker.m_maker) |-> maker.m_maker[i].requiredSize]

\* C11: a prepared maker holds ilstSize = 8 + the sum of requiredSize over
\* the prepared field makers and metaSize = 8 + 37 + (ilstSize if a field
\* was prepared, else 0); no maker is prepared for a field with an empty
\* value or for one whose preparation fails; make writes metaSize bytes:
\* the meta header carrying metaSize, the hdlr block, and the ilst atom
\* with header value ilstSize only when a field was prepared.
C11_MakerSizes ==
    /\ maker.prepared =>
         /\ maker.m_ilstSize = 8 + SumSeq(PreparedSizes)
         /\ maker.m_metaSize
              = 8 + 37 + (IF Len(maker.m_maker) > 0 THEN maker.m_ilstSize ELSE 0)
         /\ \A i \in 1..Len(maker.m_maker) :
              /\ ~IsEmpty(maker.m_maker[i].field.value)
              /\ maker.m_maker[i].field.id # NoId
              /\ \E j \in 1..Len(m_fields) : m_fields[j] = maker.m_maker[i].field
    /\ written.made =>
         /\ written.maker.prepared
         /\ maker.prepared => written.maker = maker
         /\ written.metaHeader = written.maker.m_metaSize
         /\ written.bytes = written.maker.m_metaSize
         /\ written.hasIlst <=> Len(written.maker.m_maker) > 0
         /\ written.hasIlst => written.ilstHeader = written.maker.m_ilstSize
         /\ ~written.hasIlst => written.bytes = 8 + 37

\* C11 witness: a tag holding a field with an empty value, a field whose
\* preparation fails and a field that is prepared was made with an ilst atom
C11_Witness ==
    /\ written.made
    /\ written.hasIlst
    /\ \E j \in 1..Len(m_fields) : IsEmpty(m_fields[j].value)
    /\ \E j \in 1..Len(m_fields) : m_fields[j].id = NoId
    /\ Len(written.maker.m_maker) >= 1
    /\ Len(written.maker.m_maker) < Len(m_fields) - 1

----------------------------------------------------------------------------
(* Properties of the extended fields of the Mp4Tag *)

\* the (mean, name) pairs of the model
ExtendedPairs == {<<MeanITunes, name>> : name \in ExtendedNames}

\* the number of "----" fields of a pair
ExtendedCount(fs, pair) ==
    Len(SelectSeq(fs, LAMBDA f :
            f.id = Extended /\ f.mean = pair[1] /\ f.name = pair[2]))

AtMostOnePerPair(fs) == \A pair \in ExtendedPairs : ExtendedCount(fs, pair) <= 1

\* the fields of the other atoms
OrdinaryFields(fs) == SelectSeq(fs, LAMBDA f : f.id # Extended)

\* what a call setValue(pair, value) has to leave behind
ExtendedValueSet(before, after, pair, value) ==
    /\ ExtendedCount(after, pair) = 1
    /\ Mp4ValueExtended(after, pair[1], pair[2]) = value
    /\ \A other \in ExtendedPairs \ {pair} :
          /\ ExtendedCount(after, other) = ExtendedCount(before, other)
          /\ Mp4ValueExtended(after, other[1], other[2])
                = Mp4ValueExtended(before, other[1], other[2])
    /\ OrdinaryFields(after) = OrdinaryFields(before)
    /\ pair = <<MeanITunes, NameCdec>> => Mp4Value(after, "EncoderSettings") = value

\* C12: on a tag with at most one "----" field per (mean, name) pair,
\* setValue(mean, name, v) leaves exactly one field for the pair, with
\* value(mean, name) = v, and the fields and values of the other pairs as
\* they were; value(EncoderSettings) is the value of ("com.apple.iTunes",
\* "cdec"), and setValue(EncoderSettings, v) does what
\* setValue("com.apple.iTunes", "cdec", v) does.
C12_ExtendedFields ==
    /\ [][AtMostOnePerPair(m_fields) =>
            /\ lastCall'.op = "setValueExtended" =>
                  /\ lastCall'.result
                  /\ ExtendedValueSet(m_fields, m_fields',
                                      <<lastCall'.mean, lastCall'.name>>,
                                      lastCall'.value)
                  /\ AtMostOnePerPair(m_fields')
            /\ (lastCall'.op = "setValue" /\ lastCall'.field = "EncoderSettings") =>
                  /\ lastCall'.result
                  /\ ExtendedValueSet(m_fields, m_fields',
                                      <<MeanITunes, NameCdec>>, lastCall'.value)
                  /\ AtMostOnePerPair(m_fields')]_vars
    /\ [](AtMostOnePerPair(m_fields) =>
            Mp4Value(m_fields, "EncoderSettings")
                = Mp4ValueExtended(m_fields, MeanITunes, NameCdec))

\* C12 witness: setValue("com.apple.iTunes", "cdec", "Jazz") was called on a
\* tag that holds a parsed "LABEL" field; both pairs hold one field
C12_Witness ==
    /\ lastCall.op = "setValueExtended"
    /\ lastCall.name = NameCdec
    /\ lastCall.value = TextValue("Jazz")
    /\ \A pair \in ExtendedPairs : ExtendedCount(m_fields, pair) = 1
    /\ Mp4ValueExtended(m_fields, MeanITunes, "LABEL") = TextValue("Rock")
    /\ Mp4Value(m_fields, "EncoderSettings") = TextValue("Jazz")

----------------------------------------------------------------------------
(* Properties of Mp4Tag::parse and of the lookups *)

\* the notifications the checks of the hdlr branch leave for an atom
HandlerNotes(atom) ==
    ParseHandlerReference([notes |-> <<>>, version |-> ""], atom).notes

\* C13: after parse of a meta atom whose hdlr child was found, the version
\* of the tag is the decimal string of the version byte and the checks of
\* version, flags, predefined integer and handler type have left their
\* notifications; the version is empty only when no hdlr child was found.
C13_HandlerReferenceRead ==
    lastCall.op = "parse" =>
        IF lastCall.hdlr.atom # NoAtom
        THEN /\ m_version = numberToString(lastCall.hdlr.atom.versionByte)
             /\ \A i \in 1..Len(HandlerNotes(lastCall.hdlr.atom)) :
                   \E j \in 1..Len(tagNotifications) :
                       tagNotifications[j] = HandlerNotes(lastCall.hdlr.atom)[i]
        ELSE m_version = ""

\* C17: hasField(EncoderSettings) holds exactly when value(EncoderSettings)
\* is not empty; a "----" field of another (mean, name) pair does not make
\* hasField(EncoderSettings) true.
C17_EncoderSettingsLookup ==
    Mp4HasField(m_fields, "EncoderSettings")
        <=> ~IsEmpty(Mp4Value(m_fields, "EncoderSettings"))

----------------------------------------------------------------------------
(* Properties of the Xing accessors, of AspectRatio and of makePadding *)

\* C14: isXingBytesfieldPresent is true exactly when a Xing header is
\* available and HasBytesField is set in the flags, whatever the other three
\* flags are.
C14_XingBytesField ==
    frameCall.op = "isXingBytesfieldPresent" =>
        (frameCall.result <=>
            /\ isXingHeaderAvailable(frame)
            /\ (frame.m_xingHeaderFlags \div HasBytesField) % 2 = 1)

\* C15: AspectRatio(aspectRatioType) indexes the table only for the types
\* 0..16 and then holds the table entry; for the types 17..255 numerator
\* and denominator are 0; type is aspectRatioType in every case.
C15_AspectRatioBounds ==
    aspectRatio.constructed =>
        LET t == aspectRatio.aspectRatioType
            ar == aspectRatio.object
        IN  /\ ~ar.crashed
            /\ ar.type = t
            /\ t >= 17 => /\ ~ar.indexed
                          /\ ~ar.outOfBounds
                          /\ ar.numerator = 0
                          /\ ar.denominator = 0
            /\ t <= 16 => /\ ar.numerator = predefinedPars[t + 1][1]
                          /\ ar.denominator = predefinedPars[t + 1][2]

\* size >= 4 for a uint32 kept as two halves
AtLeastFour(u) == u.hi > 0 \/ u.lo >= 4

\* u - 4 for a u of at least 4, and u + 4 with the carry out of 32 bits
LessFour(u) ==
    IF u.lo >= 4 THEN [hi |-> u.hi, lo |-> u.lo - 4]
    ELSE [hi |-> u.hi - 1, lo |-> u.lo + HalfModulus - 4]
PlusFour(u) ==
    IF u.lo + 4 < HalfModulus THEN [hi |-> u.hi, lo |-> u.lo + 4, carry |-> 0]
    ELSE IF u.hi + 1 < HalfModulus
    THEN [hi |-> u.hi + 1, lo |-> u.lo + 4 - HalfModulus, carry |-> 0]
    ELSE [hi |-> 0, lo |-> u.lo + 4 - HalfModulus, carry |-> 1]

\* the header written is a Padding header with the flag and the data size
PaddingHeaderIs(isLast, dataSize) ==
    /\ padding.stream.headerBytes.type = "Padding"
    /\ padding.stream.headerBytes.isLast = isLast
    /\ padding.stream.headerBytes.dataSize = dataSize

\* the bytes written, header included, are as many as size
WritesSizeBytes ==
    /\ padding.stream.zeroes = LessFour(padding.size)
    /\ PlusFour(padding.stream.zeroes)
          = [hi |-> padding.size.hi, lo |-> padding.size.lo, carry |-> 0]

\* for a size below 4 the number of zero bytes is size - 4 + 2^32
WrapsBelowFour ==
    ~AtLeastFour(padding.size) =>
        /\ padding.stream.zeroes
              = [hi |-> HalfModulus - 1, lo |-> HalfModulus - 4 + padding.size.lo]
        /\ PlusFour(padding.stream.zeroes).carry = 1

\* C16 as stated: for every size >= 4 makePadding writes size bytes, a
\* Padding header with the isLast flag and dataSize = size - 4, then
\* size - 4 zero bytes; below 4 the subtraction wraps modulo 2^32.
C16_PaddingAnySize ==
    padding.written =>
        /\ AtLeastFour(padding.size) =>
              /\ PaddingHeaderIs(padding.isLast, LessFour(padding.size))
              /\ WritesSizeBytes
        /\ WrapsBelowFour

\* the data size fits the 24 bits of the block header: size < 2^24 + 4
FitsBlockHeader(u) == u.hi < 256 \/ (u.hi = 256 /\ u.lo < 4)

\* C16 as amended: for every size >= 4 makePadding writes size bytes, a
\* Padding header with the isLast flag, then size - 4 zero bytes; the
\* header carries dataSize = size - 4 for the sizes up to 2^24 + 3; below 4
\* the subtraction wraps modulo 2^32.
C16_PaddingSizes ==
    padding.written =>
        /\ AtLeastFour(padding.size) =>
              /\ padding.stream.headerBytes.type = "Padding"
              /\ padding.stream.headerBytes.isLast = padding.isLast
              /\ padding.stream.header.dataSize = LessFour(padding.size)
              /\ FitsBlockHeader(padding.size) =>
                    PaddingHeaderIs(padding.isLast, LessFour(padding.size))
              /\ WritesSizeBytes
        /\ WrapsBelowFour

\* C16 witness: a last padding block of the largest size whose data size
\* fits the header, 2^24 + 3, was written
C16_Witness ==
    /\ padding.written
    /\ padding.isLast
    /\ padding.size = [hi |-> 256, lo |-> 3]
    /\ padding.stream.headerBytes.dataSize = [hi |-> 255, lo |-> HalfModulus - 1]
    /\ padding.stream.zeroes = [hi |-> 255, lo |-> HalfModulus - 1]

====
